---- MODULE Spec2Model ----
(***************************************************************************)
(* Environments API (apps/api/src/app/environments): the controller's      *)
(* routes and the UpdateEnvironment use case, over the environment store.  *)
(*                                                                         *)
(* An environment document is a function from field names to values:      *)
(*   _id, name, identifier, _organizationId, _parentId, widget.            *)
(* The store is the collection of live documents, keyed by _id.            *)
(***************************************************************************)
EXTENDS Naturals, FiniteSets, Sequences, TLC

VARIABLES
    store,      \* the environment collection: [live _id -> document]
    nextId,     \* index of the next _id the store generates
    pending,    \* store update calls issued by execute() and not yet applied
    last,       \* the request the last step handled, and its outcome
    deleted,    \* history: ids whose DELETE /:envId was acknowledged
    createdAs,  \* history: [created _id -> the document as POST / returned it]
    applied     \* history: update requests in the order their writes took effect

vars == <<store, nextId, pending, last, deleted, createdAs, applied>>

----------------------------------------------------------------------------
(* Bounds *)

MaxEnvs == 1        \* environments ever created (Spec, SpecConcurrent)
MaxLifecycleEnvs == 2   \* environments ever created (SpecLifecycle)
MaxPending == 2     \* update requests in flight at once (SpecConcurrent)
MaxApplied == 2     \* update writes followed per run (SpecConcurrent)

----------------------------------------------------------------------------
(* Values *)

\* JavaScript's undefined: a request field that is absent, a document field
\* that is not set.  It is no string a request carries.
Undefined == "<undefined>"

EnvIdStr == <<"e1", "e2", "e3", "e4">>
Ids(n) == {EnvIdStr[i] : i \in 1..n}
EnvIds == Ids(MaxEnvs)

Users == {"U1", "U2"}
OrganizationOf(u) == IF u = "U1" THEN "O1" ELSE "O2"

\* IJwtPayload as the routes read it: _id, organizationId, environmentId.
Session(u, e) == [_id |-> u, organizationId |-> OrganizationOf(u), environmentId |-> e]
SessionsOf(n) == {Session(u, e) : u \in Users, e \in Ids(n)}

Names == {"A", "B"}
CreateNames == {"A"}
Identifiers == {"x"}
ParentIds == {EnvIdStr[1]}

\* UpdateEnvironmentRequestDto: name?, identifier?, parentId?
UpdateBodies ==
    [name : {Undefined, ""} \cup Names,
     identifier : {Undefined, ""} \cup Identifiers,
     parentId : {Undefined, ""} \cup ParentIds]

\* The caller and the bodies of the concurrent runs: name and identifier, never empty.
ConcurrentUsers == {"U1"}
ConcurrentBodies ==
    [name : {Undefined} \cup Names,
     identifier : {Undefined} \cup Identifiers,
     parentId : {Undefined}]

\* The bodies of the lifecycle runs: a new name, a new identifier, or neither.
LifecycleBodies ==
    [name : {Undefined, "B"},
     identifier : {Undefined} \cup Identifiers,
     parentId : {Undefined}]

\* CreateEnvironmentRequestDto: name
CreateBodies == [name : CreateNames]

\* What the store answers to a call: it applied it, or it failed with an error.
StoreErrors == {"E_CONNECTION", "E_CONSTRAINT"}
StoreOutcomes == {"ok"} \cup StoreErrors

NoBody == [name |-> Undefined, identifier |-> Undefined, parentId |-> Undefined]
NoSession == [_id |-> "", organizationId |-> "", environmentId |-> ""]
NoRequest ==
    [op |-> "none", user |-> NoSession, envId |-> "", body |-> NoBody,
     flag |-> FALSE, calls |-> 0, outcome |-> "ok", result |-> "ok"]

----------------------------------------------------------------------------
(* The environment store *)

\* A document matches a filter when it agrees with it on every key of the filter.
Matches(doc, query) == \A k \in DOMAIN query : k \in DOMAIN doc /\ doc[k] = query[k]

\* $set: the keys of the update set are written, every other key is kept.
ApplySet(doc, set) ==
    [k \in DOMAIN doc \cup DOMAIN set |-> IF k \in DOMAIN set THEN set[k] ELSE doc[k]]

\* repository.update(query, {$set: set}): a partial-field merge into the
\* documents the filter matches; no document is created.
RepositoryUpdate(st, query, set) ==
    [i \in DOMAIN st |-> IF Matches(st[i], query) THEN ApplySet(st[i], set) ELSE st[i]]

\* repository.delete(query)
RepositoryDelete(st, query) ==
    [i \in {j \in DOMAIN st : ~Matches(st[j], query)} |-> st[i]]

\* repository.find(query), as the set of documents found
RepositoryFind(st, query) == {st[i] : i \in {j \in DOMAIN st : Matches(st[j], query)}}

\* repository.create(doc)
RepositoryCreate(st, doc) ==
    [i \in DOMAIN st \cup {doc["_id"]} |-> IF i = doc["_id"] THEN doc ELSE st[i]]

----------------------------------------------------------------------------
(* UpdateEnvironment.execute *)

\* if (v): a string is truthy unless it is undefined or empty
Truthy(v) == v # Undefined /\ v # ""

\* Slip: the name is written whenever it is not the empty string, undefined included.
UpdateKeys_NameUnchecked(command) ==
    (IF command.name # "" THEN {"name"} ELSE {})
    \cup
    (IF Truthy(command._parentId) /\ command.name # "" THEN {"_parentId"} ELSE {})
    \cup
    (IF Truthy(command.identifier) /\ command.name # "" THEN {"identifier"} ELSE {})

\* Slip: each field is tested for its own emptiness only.
UpdateKeys_OwnFieldOnly(command) ==
    (IF Truthy(command.name) /\ command.name # "" THEN {"name"} ELSE {})
    \cup
    (IF Truthy(command._parentId) /\ command._parentId # "" THEN {"_parentId"} ELSE {})
    \cup
    (IF Truthy(command.identifier) /\ command.identifier # "" THEN {"identifier"} ELSE {})

\* Slip: identifier and parent id are written only with a name present.
UpdateKeys_NameRequired(command) ==
    (IF Truthy(command.name) /\ command.name # "" THEN {"name"} ELSE {})
    \cup
    (IF Truthy(command._parentId) /\ Truthy(command.name) THEN {"_parentId"} ELSE {})
    \cup
    (IF Truthy(command.identifier) /\ Truthy(command.name) THEN {"identifier"} ELSE {})

\* The keys execute() puts into updatePayload: its three if statements.
UpdateKeys(command) ==
    (IF Truthy(command.name) /\ command.name # "" THEN {"name"} ELSE {})
    \cup
    (IF Truthy(command._parentId) /\ command.name # "" THEN {"_parentId"} ELSE {})
    \cup
    (IF Truthy(command.identifier) /\ command.name # "" THEN {"identifier"} ELSE {})

\* Slip: the caller's organization is written with the other fields.
UpdatePayload_WritesOrganization(command) ==
    [k \in UpdateKeys(command) \cup {"_organizationId"} |->
        IF k = "_organizationId" THEN command.organizationId ELSE command[k]]

\* updatePayload: each key with the command's value for it.
UpdatePayload(command) == [k \in UpdateKeys(command) |-> command[k]]

\* Slip: the filter is scoped by the caller's organization.
UpdateQuery_ScopedByOrganization(command) ==
    [_id |-> command._id, _organizationId |-> command.organizationId]

UpdateQuery(command) == [_id |-> command._id]

\* The store calls one execute() issues, in order.
UpdateCalls(command) ==
    <<[query |-> UpdateQuery(command), set |-> UpdatePayload(command)]>>

\* Slip: the rejection is caught and the call reported as done.
ExecuteResult_Swallowed(outcome) == "ok"

\* return await ...: the store's answer, or its rejection, is execute()'s own.
ExecuteResult(outcome) == outcome

----------------------------------------------------------------------------
(* EnvironmentsController: the commands the routes build *)

UpdateEnvironmentCommand(user, envId, payload) ==
    [_id |-> envId,
     organizationId |-> user.organizationId,
     userId |-> user._id,
     name |-> payload.name,
     identifier |-> payload.identifier,
     _parentId |-> payload.parentId]

\* Slip: the user id is passed as the organization id.
CreateEnvironmentCommand_UserAsOrganization(user, body) ==
    [name |-> body.name, userId |-> user._id, organizationId |-> user._id]

CreateEnvironmentCommand(user, body) ==
    [name |-> body.name, userId |-> user._id, organizationId |-> user.organizationId]

\* Slip: the session's environment is deleted, not the one of the path.
DeleteEnvironmentCommand_SessionEnvironment(user, envId) ==
    [_id |-> user.environmentId, organizationId |-> user.organizationId, userId |-> user._id]

DeleteEnvironmentCommand(user, envId) ==
    [_id |-> envId, organizationId |-> user.organizationId, userId |-> user._id]

GetEnvironmentCommand(user) ==
    [environmentId |-> user.environmentId, userId |-> user._id,
     organizationId |-> user.organizationId]

GetMyEnvironmentsCommand(user) ==
    [userId |-> user._id, organizationId |-> user.organizationId]

UpdateWidgetSettingsCommand(user, body) ==
    [organizationId |-> user.organizationId,
     environmentId |-> user.environmentId,
     notificationCenterEncryption |-> body.notificationCenterEncryption]

----------------------------------------------------------------------------
(* The use cases behind the other routes *)

\* CreateEnvironment.execute: a new document with a generated _id.
CreateEnvironmentDoc(id, command) ==
    [_id |-> id,
     name |-> command.name,
     identifier |-> id,
     _organizationId |-> command.organizationId,
     _parentId |-> Undefined,
     widget |-> [notificationCenterEncryption |-> FALSE]]

\* DeleteEnvironment.execute: deletes the document matched by id.
DeleteEnvironmentExecute(st, command) == RepositoryDelete(st, [_id |-> command._id])

\* GetEnvironment.execute: the session's environment, within its organization.
GetEnvironment(st, command) ==
    RepositoryFind(st, [_id |-> command.environmentId,
                        _organizationId |-> command.organizationId])

\* GetMyEnvironments.execute: the organization's environments.
GetMyEnvironments(st, command) ==
    RepositoryFind(st, [_organizationId |-> command.organizationId])

\* UpdateWidgetSettings.execute: sets the flag on the session's environment.
UpdateWidgetSettingsExecute(st, command) ==
    RepositoryUpdate(st,
        [_id |-> command.environmentId, _organizationId |-> command.organizationId],
        [widget |-> [notificationCenterEncryption |-> command.notificationCenterEncryption]])

----------------------------------------------------------------------------
(* Initial state: an empty collection, nothing in flight *)

Init ==
    /\ store = <<>>
    /\ nextId = 1
    /\ pending = {}
    /\ last = NoRequest
    /\ deleted = {}
    /\ createdAs = <<>>
    /\ applied = <<>>

\* No request is between its arrival and its response.
Idle == last = NoRequest /\ pending = {}

----------------------------------------------------------------------------
(* Routes.  A route that makes one store call is one step; PUT /:envId is    *)
(* two: execute() issues its store call, and the call takes effect.         *)
(* n: the environment ids in play are the first n.                          *)

\* POST /
createEnvironment(n) ==
    \E user \in SessionsOf(n), body \in CreateBodies :
        /\ Idle
        /\ nextId <= n
        /\ LET command == CreateEnvironmentCommand(user, body)
               doc == CreateEnvironmentDoc(EnvIdStr[nextId], command)
           IN  /\ store' = RepositoryCreate(store, doc)
               /\ createdAs' = RepositoryCreate(createdAs, doc)
               /\ last' = [NoRequest EXCEPT !.op = "create", !.user = user,
                                           !.envId = doc["_id"], !.body.name = body.name,
                                           !.calls = 1]
        /\ nextId' = nextId + 1
        /\ UNCHANGED <<pending, deleted, applied>>

\* PUT /:envId, up to the await: the command is built and execute() issues
\* its store call.  At most cap requests are in flight.  The route does not
\* read the session's environment, taken here to be the one of the path.
updateMyEnvironment(n, users, bodies, cap) ==
    \E u \in users, envId \in Ids(n), payload \in bodies :
        LET user == Session(u, envId)
            command == UpdateEnvironmentCommand(user, envId, payload)
            rid == CHOOSE r \in 1..(Cardinality(pending) + 1) :
                        \A p \in pending : p.rid # r
        IN  /\ last = NoRequest
            /\ Cardinality(pending) < cap
            /\ Len(applied) + Cardinality(pending) < MaxApplied
            /\ pending' = pending \cup
                    {[rid |-> rid, user |-> user, payload |-> payload,
                      command |-> command, calls |-> UpdateCalls(command)]}
            /\ UNCHANGED <<store, nextId, last, deleted, createdAs, applied>>

\* PUT /:envId, from the await on: the store applies the call or fails it,
\* and execute() returns.  track: the write is appended to the history.
repositoryUpdateSettles(track) ==
    \E p \in pending, outcome \in StoreOutcomes :
        LET call == p.calls[1]
            hit == p.command._id \in DOMAIN store
        IN  /\ last = NoRequest
            /\ store' = IF outcome = "ok"
                        THEN RepositoryUpdate(store, call.query, call.set)
                        ELSE store
            /\ pending' = pending \ {p}
            /\ last' = [NoRequest EXCEPT !.op = "update", !.user = p.user,
                                        !.envId = p.command._id, !.body = p.payload,
                                        !.calls = Len(p.calls), !.outcome = outcome,
                                        !.result = ExecuteResult(outcome)]
            /\ applied' = IF track /\ outcome = "ok" /\ hit
                          THEN Append(applied, p)
                          ELSE applied
            /\ UNCHANGED <<nextId, deleted, createdAs>>

\* DELETE /:envId
deleteMyEnvironment(n) ==
    \E user \in SessionsOf(n), envId \in Ids(n) :
        LET command == DeleteEnvironmentCommand(user, envId)
        IN  /\ Idle
            /\ store' = DeleteEnvironmentExecute(store, command)
            /\ deleted' = IF envId \in DOMAIN store THEN deleted \cup {envId} ELSE deleted
            /\ createdAs' = [i \in DOMAIN createdAs \ {envId} |-> createdAs[i]]
            /\ last' = [NoRequest EXCEPT !.op = "delete", !.user = user,
                                        !.envId = envId, !.calls = 1]
            /\ UNCHANGED <<nextId, pending, applied>>

\* PUT /widget/settings
updateWidgetSettings(n) ==
    \E user \in SessionsOf(n), flag \in BOOLEAN :
        LET command ==
                UpdateWidgetSettingsCommand(user, [notificationCenterEncryption |-> flag])
        IN  /\ Idle
            /\ store' = UpdateWidgetSettingsExecute(store, command)
            /\ last' = [NoRequest EXCEPT !.op = "widget", !.user = user,
                                        !.envId = user.environmentId, !.flag = flag,
                                        !.calls = 1]
            /\ UNCHANGED <<nextId, pending, deleted, createdAs, applied>>

\* GET /me
getCurrentEnvironment(n) ==
    \E user \in SessionsOf(n) :
        /\ Idle
        /\ last' = [NoRequest EXCEPT
                        !.op = "get", !.user = user, !.envId = user.environmentId,
                        !.calls = 1,
                        !.result = IF GetEnvironment(store, GetEnvironmentCommand(user)) = {}
                                   THEN "not_found" ELSE "ok"]
        /\ UNCHANGED <<store, nextId, pending, deleted, createdAs, applied>>

\* GET /
getMyEnvironments(n) ==
    \E user \in SessionsOf(n) :
        /\ Idle
        /\ last' = [NoRequest EXCEPT !.op = "list", !.user = user, !.calls = 1]
        /\ UNCHANGED <<store, nextId, pending, deleted, createdAs, applied>>

\* The response of the handled request leaves.
respond ==
    /\ last # NoRequest
    /\ last' = NoRequest
    /\ UNCHANGED <<store, nextId, pending, deleted, createdAs, applied>>

\* Requests handled one after another, with every update body.
Next ==
    \/ createEnvironment(MaxEnvs)
    \/ updateMyEnvironment(MaxEnvs, Users, UpdateBodies, 1)
    \/ repositoryUpdateSettles(FALSE)
    \/ deleteMyEnvironment(MaxEnvs)
    \/ updateWidgetSettings(MaxEnvs)
    \/ getCurrentEnvironment(MaxEnvs)
    \/ getMyEnvironments(MaxEnvs)
    \/ respond

Spec == Init /\ [][Next]_vars

\* Updates of one environment in flight together.
NextConcurrent ==
    \/ createEnvironment(MaxEnvs)
    \/ updateMyEnvironment(MaxEnvs, ConcurrentUsers, ConcurrentBodies, MaxPending)
    \/ repositoryUpdateSettles(TRUE)
    \/ respond

SpecConcurrent == Init /\ [][NextConcurrent]_vars

\* Requests handled one after another, over several environments.
NextLifecycle ==
    \/ createEnvironment(MaxLifecycleEnvs)
    \/ updateMyEnvironment(MaxLifecycleEnvs, Users, LifecycleBodies, 1)
    \/ repositoryUpdateSettles(FALSE)
    \/ deleteMyEnvironment(MaxLifecycleEnvs)
    \/ updateWidgetSettings(MaxLifecycleEnvs)
    \/ getCurrentEnvironment(MaxLifecycleEnvs)
    \/ getMyEnvironments(MaxLifecycleEnvs)
    \/ respond

SpecLifecycle == Init /\ [][NextLifecycle]_vars

----------------------------------------------------------------------------
(* Properties *)

UpdateFields == {"name", "identifier", "_parentId"}

\* The update requests whose store call settles in this step.
Settling == pending \ pending'

\* The environment a settling request names exists when the call settles.
Hits(p) == p.command._id \in DOMAIN store

\* C1: a field of name, identifier and parent id that is absent or empty in
\* an update command is not in the update set written to the store, and its
\* stored value is the same after the update as before it.
C1_AbsentOrEmptyFieldNotWritten ==
    [][\A p \in Settling : \A f \in UpdateFields :
            ~Truthy(p.command[f]) =>
                /\ f \notin DOMAIN p.calls[1].set
                /\ \A i \in DOMAIN store :
                        i \in DOMAIN store' /\ store'[i][f] = store[i][f]]_vars

\* An update that wrote its name has left the empty identifier alone.
C1_Witness ==
    /\ last.op = "update" /\ last.outcome = "ok"
    /\ last.envId \in DOMAIN store
    /\ last.body.identifier = "" /\ last.body.parentId = Undefined
    /\ last.body.name = "B"
    /\ store[last.envId].name = "B"
    /\ store[last.envId].identifier = last.envId

\* C2: an update command whose name is the empty string writes no field:
\* its update set is empty and the store is unchanged, also when identifier
\* and parent id are provided and non-empty.
C2_EmptyNameSuppressesAll ==
    [][\A p \in Settling :
            p.command.name = "" =>
                /\ DOMAIN p.calls[1].set = {}
                /\ store' = store]_vars

\* PUT /:envId {name: "", identifier: "x", parentId: ...} was applied and the
\* stored identifier and parent id are not the ones of the request.
C2_Witness ==
    /\ last.op = "update" /\ last.outcome = "ok"
    /\ last.envId \in DOMAIN store
    /\ last.body.name = ""
    /\ Truthy(last.body.identifier) /\ Truthy(last.body.parentId)
    /\ store[last.envId].identifier # last.body.identifier
    /\ store[last.envId]._parentId # last.body.parentId

\* C3: the update selects the record by environment id alone.  The store
\* after an applied update is the one the same request would have produced
\* with any other caller (organization id, user id), and an update of an
\* environment of another organization writes its fields.
C3_UpdateSelectsByIdAlone ==
    [][\A p \in Settling :
            last'.outcome = "ok" =>
                /\ \A u \in Users :
                        LET other == UpdateEnvironmentCommand(
                                        Session(u, p.command._id), p.command._id, p.payload)
                            call == UpdateCalls(other)[1]
                        IN  store' = RepositoryUpdate(store, call.query, call.set)
                /\ \A f \in DOMAIN p.calls[1].set :
                        Hits(p) => store'[p.command._id][f] = p.command[f]]_vars

\* A caller of another organization has renamed the environment.
C3_Witness ==
    /\ last.op = "update" /\ last.outcome = "ok"
    /\ last.envId \in DOMAIN store
    /\ store[last.envId]._organizationId = "O1"
    /\ last.user.organizationId = "O2"
    /\ last.body.name = "B"
    /\ store[last.envId].name = "B"

\* C4: when the store's update call fails, the update operation fails with
\* that same error, has issued one store call and issues no other, and the
\* store is unchanged.
C4_StoreFailurePropagates ==
    [][\A p \in Settling :
            last'.outcome \in StoreErrors =>
                /\ last'.result = last'.outcome
                /\ last'.calls = 1
                /\ pending' \subseteq pending
                /\ store' = store]_vars

\* A renaming update failed in the store and the name is not the requested one.
C4_Witness ==
    /\ last.op = "update" /\ last.outcome = "E_CONSTRAINT"
    /\ last.result = "E_CONSTRAINT"
    /\ last.envId \in DOMAIN store
    /\ last.body.name = "B"
    /\ store[last.envId].name = "A"

\* C5: once DELETE /:envId has deleted an environment, a fetch of that id
\* finds nothing, by any session and after any other operation.
C5_DeletedStaysNotFound ==
    \A id \in deleted : \A u \in Users :
        GetEnvironment(store, GetEnvironmentCommand(Session(u, id))) = {}

\* GET /me of a deleted environment answered not found, with another
\* environment created, renamed and its widget flag set.
C5_Witness ==
    /\ last.op = "get"
    /\ last.envId \in deleted
    /\ last.result = "not_found"
    /\ \E id \in DOMAIN store :
            /\ store[id].name = "B"
            /\ store[id].widget.notificationCenterEncryption

\* C6 as stated: every created, undeleted environment is in the listing of
\* the organization that created it, with the name given at creation.
C6_ListedWithCreationName ==
    \A id \in DOMAIN createdAs : \A u \in Users :
        OrganizationOf(u) = createdAs[id]["_organizationId"] =>
            \E doc \in GetMyEnvironments(store, GetMyEnvironmentsCommand(Session(u, id))) :
                /\ doc["_id"] = id
                /\ doc["_organizationId"] = createdAs[id]["_organizationId"]
                /\ doc.name = createdAs[id].name

\* C6, amended: every created, undeleted environment is in the listing of
\* the organization that created it, with that organization as its reference;
\* it leaves the listing only by DELETE of its id; and its name is the one
\* given at creation until an update of its id writes a name.
C6_ListedUntilDeleted ==
    [][/\ last'.op = "create" =>
            \E doc \in GetMyEnvironments(store', GetMyEnvironmentsCommand(last'.user)) :
                /\ doc["_id"] = last'.envId
                /\ doc.name = last'.body.name
                /\ doc["_organizationId"] = last'.user.organizationId
       /\ \A id \in DOMAIN store :
            LET org == store[id]["_organizationId"]
                listed(st, u) ==
                    \E doc \in GetMyEnvironments(st, GetMyEnvironmentsCommand(Session(u, id))) :
                        doc["_id"] = id /\ doc["_organizationId"] = org
            IN  /\ \A u \in Users : OrganizationOf(u) = org => listed(store, u)
                /\ IF id \in DOMAIN store'
                   THEN /\ \A u \in Users : OrganizationOf(u) = org => listed(store', u)
                        /\ \/ store'[id].name = store[id].name
                           \/ \E p \in Settling :
                                /\ p.command._id = id
                                /\ Truthy(p.command.name)
                                /\ store'[id].name = p.command.name
                   ELSE last'.op = "delete" /\ last'.envId = id]_vars

\* A renamed environment is listed for its organization under its new name.
C6_Witness ==
    /\ last.op = "list"
    /\ \E doc \in GetMyEnvironments(store, GetMyEnvironmentsCommand(last.user)) :
            /\ doc["_id"] \in DOMAIN createdAs
            /\ doc.name # createdAs[doc["_id"]].name

\* The record an update request leaves, field by field: a field the request
\* provides is the request's, any other field is kept.
WriteOf(doc, command) ==
    [k \in DOMAIN doc |->
        IF k \in UpdateFields /\ command[k] \notin {Undefined, ""}
        THEN command[k] ELSE doc[k]]

RECURSIVE InOrder(_, _, _)
InOrder(doc, log, n) ==
    IF n = 0 THEN doc
    ELSE LET before == InOrder(doc, log, n - 1)
         IN  IF log[n].command._id = doc["_id"]
             THEN WriteOf(before, log[n].command)
             ELSE before

\* C7: concurrent updates of one environment are last-write-wins per field.
\* Each update is one store write, and the record is the created one with
\* the updates applied one after another in the order their writes took
\* effect.
C7_LastWriteWinsPerField ==
    /\ \A p \in pending : Len(p.calls) = 1
    /\ \A id \in DOMAIN store :
            store[id] = InOrder(createdAs[id], applied, Len(applied))

\* Two updates in flight together, applied in the reverse of their arrival:
\* one wrote the identifier only, the later one the name only, and the record
\* has both.
C7_Witness ==
    /\ Len(applied) = 2
    /\ applied[1].rid = 2 /\ applied[2].rid = 1
    /\ applied[1].command._id = applied[2].command._id
    /\ applied[1].command.name = Undefined /\ applied[1].command.identifier = "x"
    /\ applied[2].command.name = "B" /\ applied[2].command.identifier = Undefined
    /\ LET id == applied[1].command._id
       IN  id \in DOMAIN store /\ store[id].name = "B" /\ store[id].identifier = "x"

\* C8: the parent reference of every stored environment, if present, is the
\* id of an existing environment other than the environment itself.
C8_ParentReferencesAnotherEnvironment ==
    \A id \in DOMAIN store :
        store[id]["_parentId"] # Undefined =>
            /\ store[id]["_parentId"] \in DOMAIN store
            /\ store[id]["_parentId"] # id

\* C9: the organization reference of a stored environment is the one it was
\* created with, and an update set holds no field other than name,
\* identifier and parent id.
C9_OrganizationNeverChanges ==
    /\ \A p \in pending : DOMAIN p.calls[1].set \subseteq UpdateFields
    /\ \A id \in DOMAIN store :
            store[id]["_organizationId"] = createdAs[id]["_organizationId"]

\* A caller of another organization has written name and identifier, and the
\* environment is still the creating organization's.
C9_Witness ==
    /\ last.op = "update" /\ last.outcome = "ok"
    /\ last.envId \in DOMAIN store
    /\ last.user.organizationId # createdAs[last.envId]["_organizationId"]
    /\ Truthy(last.body.name) /\ Truthy(last.body.identifier)
    /\ store[last.envId].identifier = last.body.identifier
    /\ store[last.envId]["_organizationId"] = createdAs[last.envId]["_organizationId"]

\* C10: an update command without a name (undefined) writes the identifier
\* and the parent id it provides and leaves the stored name; an update
\* command whose three fields are all absent or empty issues one store
\* update, with an empty update set, and the store is unchanged.
C10_AbsentNameDoesNotSuppress ==
    [][\A p \in Settling :
            /\ (p.command.name = Undefined /\ last'.outcome = "ok") =>
                    /\ \A f \in {"identifier", "_parentId"} :
                            Truthy(p.command[f]) =>
                                /\ f \in DOMAIN p.calls[1].set
                                /\ p.calls[1].set[f] = p.command[f]
                                /\ Hits(p) => store'[p.command._id][f] = p.command[f]
                    /\ Hits(p) => store'[p.command._id].name = store[p.command._id].name
            /\ (\A f \in UpdateFields : ~Truthy(p.command[f])) =>
                    /\ Len(p.calls) = 1 /\ last'.calls = 1
                    /\ DOMAIN p.calls[1].set = {}
                    /\ store' = store]_vars

\* An update without a name wrote the identifier and the parent id.
C10_Witness ==
    /\ last.op = "update" /\ last.outcome = "ok"
    /\ last.envId \in DOMAIN store
    /\ last.body.name = Undefined
    /\ Truthy(last.body.identifier) /\ Truthy(last.body.parentId)
    /\ store[last.envId].identifier = last.body.identifier
    /\ store[last.envId]["_parentId"] = last.body.parentId
    /\ store[last.envId].name = createdAs[last.envId].name

====
